---- MODULE Spec2Model ----
(***************************************************************************)
(* FitSchedule: the application snapshot kept by AppProvider (members,     *)
(* groups, events, series, sessions) and the operations that change it.    *)
(* Instants are integers on one time axis; an event's end instant is its   *)
(* start (date + time) plus its duration.                                  *)
(***************************************************************************)
EXTENDS Integers, Sequences, FiniteSets, TLC

\* ------------------------------------------------------------------ bounds
MaxMembers == 3
MaxEvents == 2
MaxBatches == 2
MaxCredit == 2
MaxStart == 1
MaxNew == 1
MaxTotal == 3
MaxStartDay == 1
MaxCreated == 3

\* An optional id that is absent (memberId?, groupId?, seriesId?).
NoId == 0

MemberIds == 1..MaxMembers
GroupId0 == MaxMembers + 1
EventId0 == GroupId0
SessionId0 == EventId0 + MaxEvents
FirstFreeId == SessionId0 + MaxMembers + MaxBatches + 1
\* The clock runs until every event of the snapshot has ended and one instant more.
MaxTime == MaxStart + 2
\* Durations of the events of the loaded snapshot (minutes, > 0).
Durations == {1}
\* The walk of a rule within the bounds ends before this date when it ends at all.
MaxDay == MaxStartDay + 7 * MaxTotal

VARIABLES members, groups, events, series, sessions, now, nextId, last, walk,
          isLoading, alert, contactImport

vars == <<members, groups, events, series, sessions, now, nextId, last, walk,
          isLoading, alert, contactImport>>

\* ----------------------------------------------------------------- helpers
Max(a, b) == IF a >= b THEN a ELSE b

\* Array.prototype.map
MapSeq(s, F(_)) == [i \in 1..Len(s) |-> F(s[i])]

\* Array.prototype.find: the first element satisfying the test, as a sequence
\* of length 0 (undefined) or 1.
FindSeq(s, T(_)) ==
    LET hits == SelectSeq(s, T) IN IF hits = <<>> THEN <<>> ELSE <<Head(hits)>>

SessionsOf(sess, m) == SelectSeq(sess, LAMBDA s : s.memberId = m)

\* ------------------------------------------------------------ the records
PersonEvent(id, m, start, dur) ==
    [id |-> id, type |-> "person", memberId |-> m, groupId |-> NoId,
     start |-> start, duration |-> dur, status |-> "scheduled", seriesId |-> NoId]

GroupEvent(id, g, start, dur) ==
    [id |-> id, type |-> "group", memberId |-> NoId, groupId |-> g,
     start |-> start, duration |-> dur, status |-> "scheduled", seriesId |-> NoId]

NewSession(id, m, total, remaining, stamp) ==
    [id |-> id, memberId |-> m, total |-> total, remaining |-> remaining,
     createdAt |-> stamp]

\* ------------------------------------------------- processCompletedEvents
\* eventDateTime after setMinutes(getMinutes() + duration)
EventEnd(e) == e.start + e.duration

\* Elapsed without its status test: every event past its end counts again.
Elapsed_AnyStatus(e, t) == EventEnd(e) < t

\* Elapsed with the status test of markEventCompleted: only completed
\* events are left alone.
Elapsed_NotCompleted(e, t) == e.status # "completed" /\ EventEnd(e) < t

\* Elapsed with the comparison turned round.
Elapsed_Reversed(e, t) == e.status = "scheduled" /\ EventEnd(e) > t

\* the test of the sweep's map over data.events
Elapsed(e, t) == e.status = "scheduled" /\ EventEnd(e) < t

\* UpdatedEvents that forgets to write the new status.
UpdatedEvents_Unmarked(evs, t) == evs

UpdatedEvents(evs, t) ==
    MapSeq(evs, LAMBDA e : IF Elapsed(e, t) THEN [e EXCEPT !.status = "completed"] ELSE e)

CompletedEventIds(evs, t) ==
    MapSeq(SelectSeq(evs, LAMBDA e : Elapsed(e, t)), LAMBDA e : e.id)

FindEvent(evs, id) == FindSeq(evs, LAMBDA e : e.id = id)
FindGroup(grps, id) == FindSeq(grps, LAMBDA g : g.id = id)

\* EventMemberIds without the group branch.
EventMemberIds_PersonOnly(evs, grps, id) ==
    LET found == FindEvent(evs, id) IN
    IF found = <<>> THEN {}
    ELSE IF found[1].type = "person" /\ found[1].memberId # NoId
         THEN {found[1].memberId} ELSE {}

\* the members one completed event adds to affectedMemberIds
EventMemberIds(evs, grps, id) ==
    LET found == FindEvent(evs, id) IN
    IF found = <<>> THEN {}
    ELSE LET e == found[1] IN
         IF e.type = "person" /\ e.memberId # NoId THEN {e.memberId}
         ELSE IF e.type = "group" /\ e.groupId # NoId
              THEN LET g == FindGroup(grps, e.groupId) IN
                   IF g = <<>> THEN {} ELSE g[1].memberIds
              ELSE {}

AffectedMemberIds(evs, grps, ids) ==
    UNION {EventMemberIds(evs, grps, ids[i]) : i \in 1..Len(ids)}

\* the filter that counts the completed events a session's member was in
CountsFor(evs, grps, id, m) ==
    LET found == FindEvent(evs, id) IN
    IF found = <<>> THEN FALSE
    ELSE LET e == found[1] IN
         IF e.type = "person" THEN e.memberId = m
         ELSE IF e.type = "group" /\ e.groupId # NoId
              THEN LET g == FindGroup(grps, e.groupId) IN
                   IF g = <<>> THEN FALSE ELSE m \in g[1].memberIds
              ELSE FALSE

MemberEventCount(evs, grps, ids, m) ==
    Len(SelectSeq(ids, LAMBDA id : CountsFor(evs, grps, id, m)))

\* SweepDebit that takes one credit however many events completed.
SweepDebit_Once(remaining, count) == Max(0, remaining - 1)

\* SweepDebit without the floor at 0.
SweepDebit_Unclamped(remaining, count) == remaining - count

SweepDebit(remaining, count) == Max(0, remaining - count)

SweepSessions(evs, grps, sess, ids) ==
    LET affected == AffectedMemberIds(evs, grps, ids) IN
    MapSeq(sess, LAMBDA s :
        IF s.memberId \in affected /\ s.remaining > 0
        THEN [s EXCEPT !.remaining =
                 SweepDebit(s.remaining, MemberEventCount(evs, grps, ids, s.memberId))]
        ELSE s)

\* Sweep that gives up, writing nothing, when a completed event names a group
\* that is not there.
Sweep_AbortOnGap(evs, grps, sess, t) ==
    LET ids == CompletedEventIds(evs, t)
        gap(e) == e.type = "group" /\ e.groupId # NoId /\ FindGroup(grps, e.groupId) = <<>>
    IN  IF ids = <<>> \/ \E i \in 1..Len(evs) : Elapsed(evs[i], t) /\ gap(evs[i])
        THEN [events |-> evs, sessions |-> sess]
        ELSE [events |-> UpdatedEvents(evs, t),
              sessions |-> SweepSessions(evs, grps, sess, ids)]

\* The snapshot a sweep at instant t produces from <<evs, sess>>.
Sweep(evs, grps, sess, t) ==
    LET ids == CompletedEventIds(evs, t) IN
    IF ids = <<>> THEN [events |-> evs, sessions |-> sess]
    ELSE [events |-> UpdatedEvents(evs, t),
          sessions |-> SweepSessions(evs, grps, sess, ids)]

\* SweepWrites that persists after every sweep.
SweepWrites_Always(evs, t) == TRUE

\* the early return of the sweep: persistData is reached only when some event
\* was completed
SweepWrites(evs, t) == CompletedEventIds(evs, t) # <<>>

\* ----------------------------------------------------- markEventCompleted
\* CompletedMemberIds without the group branch.
CompletedMemberIds_PersonOnly(e, grps) ==
    IF e.type = "person" /\ e.memberId # NoId THEN {e.memberId} ELSE {}

CompletedMemberIds(e, grps) ==
    IF e.type = "person" /\ e.memberId # NoId THEN {e.memberId}
    ELSE IF e.type = "group" /\ e.groupId # NoId
         THEN LET g == FindGroup(grps, e.groupId) IN
              IF g = <<>> THEN {} ELSE g[1].memberIds
         ELSE {}

\* CompletedSessions without the remaining > 0 test.
CompletedSessions_Unguarded(sess, memberIds) ==
    MapSeq(sess, LAMBDA s :
        IF s.memberId \in memberIds
        THEN [s EXCEPT !.remaining = s.remaining - 1]
        ELSE s)

CompletedSessions(sess, memberIds) ==
    MapSeq(sess, LAMBDA s :
        IF s.memberId \in memberIds /\ s.remaining > 0
        THEN [s EXCEPT !.remaining = s.remaining - 1]
        ELSE s)

\* the guard of markEventCompleted: the event exists and is not completed yet
CanComplete(found) == found # <<>> /\ found[1].status # "completed"

\* UpdateEventStatus that writes the status into every event.
UpdateEventStatus_All(evs, id, status) ==
    MapSeq(evs, LAMBDA e : [e EXCEPT !.status = status])

\* updateEvent(id, updates) with updates = {status}
UpdateEventStatus(evs, id, status) ==
    MapSeq(evs, LAMBDA e : IF e.id = id THEN [e EXCEPT !.status = status] ELSE e)

\* ------------------------------------------------ SessionModal.handleSave
\* parseInt of a text field gives NaN or an integer; a comparison with NaN is
\* false.
NaN == [nan |-> TRUE, value |-> 0]
Num(n) == [nan |-> FALSE, value |-> n]
IsNaN(x) == x.nan
Lt(x, y) == ~x.nan /\ ~y.nan /\ x.value < y.value
Le(x, y) == ~x.nan /\ ~y.nan /\ x.value <= y.value

TotalInputs == {NaN} \cup {Num(n) : n \in 0..MaxCredit}
RemainingInputs == {NaN} \cup {Num(n) : n \in -1..(MaxCredit + 1)}

\* handleSave without its last check (remaining may exceed total).
SessionInputValid_NoCeiling(selectedMemberId, totalNum, remainingNum) ==
    /\ selectedMemberId # NoId
    /\ ~(IsNaN(totalNum) \/ Le(totalNum, Num(0)))
    /\ ~(IsNaN(remainingNum) \/ Lt(remainingNum, Num(0)))

\* the four checks of handleSave, in their order; a failed check returns
SessionInputValid(selectedMemberId, totalNum, remainingNum) ==
    /\ selectedMemberId # NoId
    /\ ~(IsNaN(totalNum) \/ Le(totalNum, Num(0)))
    /\ ~(IsNaN(remainingNum) \/ Lt(remainingNum, Num(0)))
    /\ ~Lt(totalNum, remainingNum)

\* addSession
AddedSession(sess, id, m, total, remaining, stamp) ==
    Append(sess, NewSession(id, m, total, remaining, stamp))

\* updateSession(id, {total, remaining})
UpdatedSession(sess, id, total, remaining) ==
    MapSeq(sess, LAMBDA s :
        IF s.id = id THEN [s EXCEPT !.total = total, !.remaining = remaining] ELSE s)

\* ------------------------------------------------------------ deleteMember
\* UpdatedGroups that removes every group id was a member of.
UpdatedGroups_DropTouched(grps, id) ==
    SelectSeq(grps, LAMBDA g : id \notin g.memberIds /\ g.memberIds # {})

UpdatedGroups(grps, id) ==
    SelectSeq(MapSeq(grps, LAMBDA g : [g EXCEPT !.memberIds = g.memberIds \ {id}]),
              LAMBDA g : g.memberIds # {})

RemainingGroupIds(grps) == {grps[i].id : i \in 1..Len(grps)}

\* WithoutMember that forgets the events and series of the groups removed.
WithoutMember_MemberOnly(recs, id, remainingGroupIds) ==
    SelectSeq(recs, LAMBDA r : r.memberId # id)

\* events and series go through the same two filters
WithoutMember(recs, id, remainingGroupIds) ==
    SelectSeq(SelectSeq(recs, LAMBDA r : r.memberId # id),
              LAMBDA r : r.groupId = NoId \/ r.groupId \in remainingGroupIds)

\* ------------------------------------------ createSeries, createGroupSeries
\* A calendar date 'YYYY-MM-DD' is the number of its day, day 0 being a
\* Monday; a Date is an instant in hours since 00:00 UTC of day 0.
HoursPerDay == 24

\* Hours the device's local time is ahead of UTC.
ZoneOffsets == {-5, 0, 3}

\* new Date('YYYY-MM-DD'): a date-only string is read as 00:00 UTC of that day
NewDate(date) == date * HoursPerDay

\* the local calendar day of an instant
LocalDay(instant, zone) == (instant + zone) \div HoursPerDay

\* Date.getDay(): the weekday of the local day, Sunday = 0
GetDay(instant, zone) == (LocalDay(instant, zone) + 1) % 7

\* setDate(getDate() + 1): the same local time on the next local day (no
\* change of the zone offset during the walk)
NextDay(instant) == instant + HoursPerDay

\* toISOString().split('T')[0]: the UTC calendar date
IsoDate(instant) == instant \div HoursPerDay

\* The weekday of a calendar date.
Weekday(date) == (date + 1) % 7

\* The argument of createSeries, Omit<Series, 'id'>.
Rule(type, m, g, weekdays, startDate, time, duration, sessionsTotal) ==
    [type |-> type, memberId |-> m, groupId |-> g, weekdays |-> weekdays,
     startDate |-> startDate, time |-> time, duration |-> duration,
     sessionsTotal |-> sessionsTotal]

\* { ...series, id: generateId() }
NewSeries(id, rule) ==
    [id |-> id, type |-> rule.type, memberId |-> rule.memberId, groupId |-> rule.groupId,
     weekdays |-> rule.weekdays, startDate |-> rule.startDate, time |-> rule.time,
     duration |-> rule.duration, sessionsTotal |-> rule.sessionsTotal]

\* SeriesEvent with a fresh id in seriesId instead of the id of the series.
SeriesEvent_OwnId(id, s, date) ==
    [id |-> id, type |-> s.type, memberId |-> s.memberId, groupId |-> s.groupId,
     start |-> date + s.time, duration |-> s.duration, status |-> "scheduled",
     seriesId |-> id]

\* the event pushed by one matching day of the walk
SeriesEvent(id, s, date) ==
    [id |-> id, type |-> s.type, memberId |-> s.memberId, groupId |-> s.groupId,
     start |-> date + s.time, duration |-> s.duration, status |-> "scheduled",
     seriesId |-> s.id]

\* { id: groupId, memberIds: payload.memberIds }
NewGroup(id, memberIds) == [id |-> id, memberIds |-> memberIds]

\* No createSeries or createGroupSeries call is running.
NoWalk ==
    [active |-> FALSE, op |-> "none", newSeries |-> <<>>, newGroup |-> <<>>,
     currentDate |-> 0, eventsCreated |-> 0, events |-> <<>>, zone |-> 0]

\* The locals of a call that has reached its while loop.
StartedWalk(op, newSeries, newGroup, zone) ==
    [active |-> TRUE, op |-> op, newSeries |-> <<newSeries>>, newGroup |-> newGroup,
     currentDate |-> NewDate(newSeries.startDate), eventsCreated |-> 0, events |-> <<>>,
     zone |-> zone]

\* the test of the while loop
WalkGoesOn(w) == w.eventsCreated < w.newSeries[1].sessionsTotal

\* one iteration of the loop; id is the id generateId() would give
WalkedDay(w, id) ==
    IF GetDay(w.currentDate, w.zone) \in w.newSeries[1].weekdays
    THEN [w EXCEPT !.events = Append(@, SeriesEvent(id, w.newSeries[1], IsoDate(w.currentDate))),
                   !.eventsCreated = @ + 1,
                   !.currentDate = NextDay(@)]
    ELSE [w EXCEPT !.currentDate = NextDay(@)]

\* ------------------------------------------------------------ the screens
\* No Alert with a destructive button is on the screen.
NoAlert == [open |-> FALSE, op |-> "none", id |-> NoId, data |-> <<>>]

\* The contact import state of the members screen after useState: no contact
\* is pending, and no import has been started.
NoImport ==
    [pendingContacts |-> <<>>, currentContactIndex |-> 0, importedMembers |-> <<>>,
     showPhoneEntry |-> FALSE, selected |-> <<>>, entered |-> <<>>, calls |-> 0,
     closed |-> FALSE, added |-> <<>>]

\* ---------------------------------------------------------------- history
\* The operation just applied, the snapshot it was applied to, and whether it
\* called persistData.
Record(op, id, wrote) ==
    [op |-> op, id |-> id, events |-> events, sessions |-> sessions, persisted |-> wrote]

\* -------------------------------------------------------------------- Init
InitMembers == [i \in 1..MaxMembers |-> [id |-> i]]

InitGroups == {<<[id |-> GroupId0, memberIds |-> 1..k]>> : k \in 1..MaxMembers}

\* The events of the loaded snapshot: all still scheduled, listed by start,
\* the first one starting when the clock does.
EventChoices(id) ==
    {PersonEvent(id, m, st, d) : m \in MemberIds, st \in 0..MaxStart, d \in Durations}
    \cup {GroupEvent(id, GroupId0, st, d) : st \in 0..MaxStart, d \in Durations}

InitEvents ==
    UNION {{evs \in [1..n -> UNION {EventChoices(EventId0 + i) : i \in 1..n}] :
               /\ \A i \in 1..n : evs[i].id = EventId0 + i
               /\ evs[1].start = 0
               /\ \A i \in 1..(n - 1) : evs[i].start <= evs[i + 1].start}
           : n \in 1..MaxEvents}

\* The sessions of the loaded snapshot, none used yet and created in list
\* order: either the packages of one member (any sizes), or one package of
\* the same size for every member.
OneMemberSessions ==
    UNION {{ss \in [1..n -> UNION {{NewSession(SessionId0 + i, 1, total, total, i) :
                                       total \in 1..MaxCredit} : i \in 1..n}] :
               \A i \in 1..n : ss[i].id = SessionId0 + i}
           : n \in 0..MaxBatches}

EveryMemberSessions ==
    {[i \in 1..MaxMembers |-> NewSession(SessionId0 + i, i, total, total, i)]
        : total \in 1..MaxCredit}

InitSessions == OneMemberSessions \cup EveryMemberSessions

Init ==
    /\ members = InitMembers
    /\ groups \in InitGroups
    /\ events \in InitEvents
    /\ series = <<>>
    /\ sessions \in InitSessions
    /\ now = 0
    /\ nextId = FirstFreeId
    /\ last = [op |-> "load", id |-> NoId, events |-> events, sessions |-> sessions,
              persisted |-> FALSE]
    /\ walk = NoWalk
    /\ isLoading = FALSE
    /\ alert = NoAlert
    /\ contactImport = NoImport

\* ----------------------------------------------------------------- actions
\* Time passes between two operations.
Tick ==
    /\ now < MaxTime
    /\ now' = now + 1
    /\ last' = Record("tick", NoId, FALSE)
    /\ UNCHANGED <<members, groups, events, series, sessions, nextId, walk,
                   isLoading, alert, contactImport>>

processCompletedEvents ==
    LET after == Sweep(events, groups, sessions, now)
    IN  /\ events' = after.events
        /\ sessions' = after.sessions
        /\ last' = Record("sweep", NoId, SweepWrites(events, now))
        /\ UNCHANGED <<members, groups, series, now, nextId, walk,
                       isLoading, alert, contactImport>>

markEventCompleted(id) ==
    LET found == FindEvent(events, id) IN
    /\ last' = Record("complete", id, CanComplete(found))
    /\ IF CanComplete(found)
       THEN LET memberIds == CompletedMemberIds(found[1], groups)
                updatedSessions == CompletedSessions(sessions, memberIds)
            IN  /\ events' = UpdateEventStatus(events, id, "completed")
                /\ sessions' = updatedSessions
       ELSE UNCHANGED <<events, sessions>>
    /\ UNCHANGED <<members, groups, series, now, nextId, walk,
                   isLoading, alert, contactImport>>

markEventSkipped(id) ==
    /\ events' = UpdateEventStatus(events, id, "skipped")
    /\ last' = Record("skip", id, TRUE)
    /\ UNCHANGED <<members, groups, series, sessions, now, nextId, walk,
                   isLoading, alert, contactImport>>

\* SessionModal in creating mode: Save with the picked member ('' when none
\* is picked) and the two parsed fields.
SaveNewSession(m, totalNum, remainingNum) ==
    /\ nextId < FirstFreeId + MaxNew
    /\ last' = Record("addSession", NoId, SessionInputValid(m, totalNum, remainingNum))
    /\ IF SessionInputValid(m, totalNum, remainingNum)
       THEN /\ sessions' = AddedSession(sessions, nextId, m, totalNum.value,
                                         remainingNum.value, nextId)
            /\ nextId' = nextId + 1
       ELSE UNCHANGED <<sessions, nextId>>
    /\ UNCHANGED <<members, groups, events, series, now, walk,
                   isLoading, alert, contactImport>>

\* SessionModal in editing mode: Save for the session with this id.
SaveEditedSession(id, totalNum, remainingNum) ==
    LET found == FindSeq(sessions, LAMBDA s : s.id = id) IN
    /\ found # <<>>
    /\ last' = Record("updateSession", id,
                       SessionInputValid(found[1].memberId, totalNum, remainingNum))
    /\ IF SessionInputValid(found[1].memberId, totalNum, remainingNum)
       THEN sessions' = UpdatedSession(sessions, id, totalNum.value, remainingNum.value)
       ELSE UNCHANGED sessions
    /\ UNCHANGED <<members, groups, events, series, now, nextId, walk,
                   isLoading, alert, contactImport>>

deleteMember(id) ==
    LET updatedGroups == UpdatedGroups(groups, id)
        remainingGroupIds == RemainingGroupIds(updatedGroups)
    IN  /\ members' = SelectSeq(members, LAMBDA m : m.id # id)
        /\ events' = WithoutMember(events, id, remainingGroupIds)
        /\ series' = WithoutMember(series, id, remainingGroupIds)
        /\ sessions' = SelectSeq(sessions, LAMBDA x : x.memberId # id)
        /\ groups' = updatedGroups
        /\ last' = Record("deleteMember", id, TRUE)
        /\ UNCHANGED <<now, nextId, walk,
                       isLoading, alert, contactImport>>

addMember ==
    /\ ~walk.active
    /\ nextId < FirstFreeId + MaxCreated
    /\ Len(members) < MaxMembers
    /\ members' = Append(members, [id |-> nextId])
    /\ nextId' = nextId + 1
    /\ last' = Record("addMember", nextId, TRUE)
    /\ UNCHANGED <<groups, events, series, sessions, now, walk,
                   isLoading, alert, contactImport>>

deleteGroup(id) ==
    /\ ~walk.active
    /\ groups' = SelectSeq(groups, LAMBDA g : g.id # id)
    /\ last' = Record("deleteGroup", id, TRUE)
    /\ UNCHANGED <<members, events, series, sessions, now, nextId, walk,
                   isLoading, alert, contactImport>>

deleteEvent(id) ==
    /\ ~walk.active
    /\ events' = SelectSeq(events, LAMBDA e : e.id # id)
    /\ last' = Record("deleteEvent", id, TRUE)
    /\ UNCHANGED <<members, groups, series, sessions, now, nextId, walk,
                   isLoading, alert, contactImport>>

\* addEvent; the event comes without its id
addEvent(event) ==
    /\ events' = Append(events, [event EXCEPT !.id = nextId])
    /\ nextId' = nextId + 1
    /\ last' = Record("addEvent", nextId, TRUE)
    /\ UNCHANGED <<members, groups, series, sessions, now, walk,
                   isLoading, alert, contactImport>>

\* createSeries up to its loop: the new series has its id, no day is walked yet
createSeries(rule, zone) ==
    /\ ~walk.active
    /\ nextId < FirstFreeId + MaxCreated
    /\ walk' = StartedWalk("createSeries", NewSeries(nextId, rule), <<>>, zone)
    /\ nextId' = nextId + 1
    /\ UNCHANGED <<members, groups, events, series, sessions, now, last,
                   isLoading, alert, contactImport>>

\* createGroupSeries up to its loop: the group and the series have their ids
createGroupSeries(memberIds, weekdays, startDate, time, duration, sessionsTotal, zone) ==
    LET groupId == nextId
        newGroup == NewGroup(groupId, memberIds)
        newSeries == NewSeries(nextId + 1,
                         Rule("group", NoId, groupId, weekdays, startDate, time, duration,
                              sessionsTotal))
    IN  /\ ~walk.active
        /\ nextId < FirstFreeId + MaxCreated
        /\ walk' = StartedWalk("createGroupSeries", newSeries, <<newGroup>>, zone)
        /\ nextId' = nextId + 2
        /\ UNCHANGED <<members, groups, events, series, sessions, now, last,
                       isLoading, alert, contactImport>>

\* One iteration of the while loop of the running call.  The loop itself has
\* no bound; the model follows it up to MaxDay.
WalkStep ==
    /\ walk.active
    /\ WalkGoesOn(walk)
    /\ IsoDate(walk.currentDate) <= MaxDay
    /\ walk' = WalkedDay(walk, nextId)
    /\ nextId' = nextId + (walk'.eventsCreated - walk.eventsCreated)
    /\ UNCHANGED <<members, groups, events, series, sessions, now, last,
                   isLoading, alert, contactImport>>

\* The loop has ended: the running call persists what it made and returns.
WalkDone ==
    /\ walk.active
    /\ ~WalkGoesOn(walk)
    /\ groups' = groups \o walk.newGroup
    /\ series' = Append(series, walk.newSeries[1])
    /\ events' = events \o walk.events
    /\ last' = Record(walk.op, walk.newSeries[1].id, TRUE)
    /\ walk' = NoWalk
    /\ UNCHANGED <<members, sessions, now, nextId,
                   isLoading, alert, contactImport>>

createGroupEvent(memberIds, date, time, duration) ==
    LET groupId == nextId
        newEvent == [GroupEvent(nextId + 1, groupId, date + time, duration)
                        EXCEPT !.status = "scheduled"]
    IN  /\ ~walk.active
        /\ nextId < FirstFreeId + MaxCreated
        /\ groups' = Append(groups, NewGroup(groupId, memberIds))
        /\ events' = Append(events, newEvent)
        /\ nextId' = nextId + 2
        /\ last' = Record("createGroupEvent", groupId, TRUE)
        /\ UNCHANGED <<members, series, sessions, now, walk,
                       isLoading, alert, contactImport>>

\* ------------------------------------------------- EventModal.handleSave
DefaultSessions == 1
DefaultDuration == 60

\* parseInt(text) || fallback: NaN and 0 give the fallback
OrDefault(parsed, fallback) ==
    IF IsNaN(parsed) \/ parsed.value = 0 THEN fallback ELSE parsed.value

\* Save in the event form for a new event.  groupNamed: the group name field
\* is not blank.
handleSave(eventType, selectedMemberId, groupNamed, sessionsTotal, duration, selectedWeekdays, startDate, eventTime, zone) ==
    LET sessionsNum == OrDefault(sessionsTotal, DefaultSessions)
        durationNum == OrDefault(duration, DefaultDuration)
    IN  /\ ~walk.active
        /\ nextId < FirstFreeId + MaxCreated
        /\ IF eventType = "person"
           THEN IF selectedMemberId = NoId
                THEN /\ last' = Record("handleSave", NoId, FALSE)
                     /\ UNCHANGED <<members, groups, events, series, sessions, now,
                                    nextId, walk,
                                    isLoading, alert, contactImport>>
                ELSE IF sessionsNum = 1
                     THEN addEvent(PersonEvent(NoId, selectedMemberId,
                                               startDate + eventTime, durationNum))
                     ELSE createSeries(Rule("person", selectedMemberId, NoId,
                                            selectedWeekdays, startDate, eventTime,
                                            durationNum, sessionsNum), zone)
           ELSE IF ~groupNamed
                THEN /\ last' = Record("handleSave", NoId, FALSE)
                     /\ UNCHANGED <<members, groups, events, series, sessions, now,
                                    nextId, walk,
                                    isLoading, alert, contactImport>>
                ELSE addEvent([type |-> "group", id |-> NoId, memberId |-> NoId,
                               groupId |-> NoId, start |-> startDate + eventTime,
                               duration |-> durationNum, status |-> "scheduled",
                               seriesId |-> NoId])

EventIds == {events[i].id : i \in 1..Len(events)}

Next ==
    \/ Tick
    \/ processCompletedEvents
    \/ \E id \in EventIds : markEventCompleted(id)
    \/ \E id \in EventIds : markEventSkipped(id)

Spec == Init /\ [][Next]_vars

\* The same application with the session ledger edited by hand and members
\* deleted.  It starts from a snapshot without sessions (every session comes
\* from the session form) in which the first member has a person event and
\* every member is in the group of the group events that follow.
InitEdit ==
    /\ Init
    /\ sessions = <<>>
    /\ Cardinality(groups[1].memberIds) = MaxMembers
    /\ Len(events) = MaxEvents
    /\ events[1].type = "person" /\ events[1].memberId = 1
    /\ \A i \in 2..Len(events) : events[i].type = "group"

MemberPicks == {members[i].id : i \in 1..Len(members)} \cup {NoId}
SessionIds == {sessions[i].id : i \in 1..Len(sessions)}

NextEdit ==
    \/ Next
    \/ \E m \in MemberPicks, t \in TotalInputs, r \in RemainingInputs : SaveNewSession(m, t, r)
    \/ \E id \in SessionIds, t \in TotalInputs, r \in RemainingInputs :
          SaveEditedSession(id, t, r)
    \/ \E id \in MemberPicks \ {NoId} : deleteMember(id)

SpecEdit == InitEdit /\ [][NextEdit]_vars

\* ----------------------------------------------------- recurring series
\* The rules createSeries and createGroupSeries are called with.
WeekdaySets == SUBSET {0, 1, 3}
RuleDurations == {-5, 0, 60}
RuleTotals == -1..MaxTotal
RuleTimes == {0}

\* A snapshot with one event of the first member and no session, in which one
\* series is created.
InitSeries ==
    /\ Init
    /\ sessions = <<>>
    /\ Cardinality(groups[1].memberIds) = MaxMembers
    /\ Len(events) = 1
    /\ events[1].type = "person" /\ events[1].memberId = 1

NextSeries ==
    \/ \E w \in WeekdaySets, d \in 0..MaxStartDay, t \in RuleTimes, dur \in RuleDurations,
          n \in RuleTotals, z \in ZoneOffsets :
          /\ series = <<>>
          /\ createSeries(Rule("person", 1, NoId, w, d, t, dur, n), z)
    \/ \E ms \in {{}, {1, 2}}, w \in WeekdaySets, d \in 0..MaxStartDay, t \in RuleTimes,
          dur \in RuleDurations, n \in RuleTotals, z \in ZoneOffsets :
          /\ series = <<>>
          /\ createGroupSeries(ms, w, d, t, dur, n, z)
    \/ WalkStep
    \/ WalkDone

SpecSeries == InitSeries /\ [][NextSeries]_vars

\* ------------------------------------------------- referential integrity
\* The application with members, groups, events and series created and
\* deleted.  It starts from a snapshot in which the first member has a person
\* event and a session and is in the group of a group event, alone or with the
\* second member.
InitIntegrity ==
    /\ Init
    /\ sessions \in EveryMemberSessions /\ sessions[1].total = 1
    /\ Cardinality(groups[1].memberIds) <= 2
    /\ Len(events) = 2
    /\ events[1].type = "person" /\ events[1].memberId = 1
    /\ events[2].type = "group"
    /\ \A i \in 1..2 : events[i].start = 0

GroupIds == {groups[i].id : i \in 1..Len(groups)}

\* What the event form is filled with.
FormSessions == {NaN, Num(2)}
FormDurations == {NaN}
FormWeekdays == {{1, 2}}

NextIntegrity ==
    \/ addMember
    \/ \E id \in MemberPicks \ {NoId} : ~walk.active /\ deleteMember(id)
    \/ \E id \in GroupIds : deleteGroup(id)
    \/ \E ms \in SUBSET (MemberPicks \ {NoId}) : createGroupEvent(ms, 0, 0, DefaultDuration)
    \/ \E ms \in SUBSET (MemberPicks \ {NoId}), w \in FormWeekdays :
          createGroupSeries(ms, w, 0, 0, DefaultDuration, 1, 0)
    \/ \E type \in {"person", "group"}, m \in MemberPicks, named \in BOOLEAN,
          n \in FormSessions, dur \in FormDurations, w \in FormWeekdays :
          handleSave(type, m, named, n, dur, w, 0, 0, 0)
    \/ WalkStep
    \/ WalkDone

SpecIntegrity == InitIntegrity /\ [][NextIntegrity]_vars

\* ------------------------------------------------- references over time
\* The application with series created, members, groups and events deleted
\* and occurrences completed, by the sweep and by hand, or skipped.  It starts
\* from a snapshot with one group event that starts with the clock and a
\* session of one credit for every member.
InitRefs ==
    /\ Init
    /\ sessions \in EveryMemberSessions /\ sessions[1].total = 1
    /\ Cardinality(groups[1].memberIds) <= 2
    /\ Len(events) = 1
    /\ events[1].type = "group" /\ events[1].start = 0

NextRefs ==
    \/ ~walk.active /\ Tick
    \/ ~walk.active /\ processCompletedEvents
    \/ \E id \in EventIds : ~walk.active /\ markEventCompleted(id)
    \/ \E id \in EventIds : ~walk.active /\ markEventSkipped(id)
    \/ \E id \in EventIds : deleteEvent(id)
    \/ \E id \in MemberPicks \ {NoId} : ~walk.active /\ deleteMember(id)
    \/ \E id \in GroupIds : deleteGroup(id)
    \/ \E m \in MemberPicks \ {NoId}, w \in FormWeekdays :
          createSeries(Rule("person", m, NoId, w, 0, 0, 1, 2), 0)
    \/ \E ms \in SUBSET (MemberPicks \ {NoId}), w \in FormWeekdays :
          createGroupSeries(ms, w, 0, 0, 1, 1, 0)
    \/ WalkStep
    \/ WalkDone

SpecRefs == InitRefs /\ [][NextRefs]_vars

\* ------------------------------------------------- the same rule twice
\* Two createSeries calls, one after the other, each on the device as it is
\* set when the call is made.
TwiceWeekdays == {{0}, {1, 3}}

NextTwice ==
    \/ \E m \in {1, 2}, w \in TwiceWeekdays, d \in 0..MaxStartDay, n \in 1..2, z \in ZoneOffsets :
          /\ Len(series) < 2
          /\ createSeries(Rule("person", m, NoId, w, d, 0, DefaultDuration, n), z)
    \/ WalkStep
    \/ WalkDone

SpecTwice == InitSeries /\ [][NextTwice]_vars

\* ------------------------------------------------- the sweep on its timer
\* The calendar screen calls the sweep when it mounts, after every change of
\* the snapshot and every minute from then on: while the application runs, a
\* sweep that has something to complete is not put off for ever.
NextLive ==
    \/ Tick
    \/ processCompletedEvents
    \/ \E id \in EventIds : markEventCompleted(id)
    \/ \E id \in EventIds : markEventSkipped(id)
    \/ \E id \in EventIds : deleteEvent(id)

SpecLive == InitIntegrity /\ [][NextLive]_vars /\ WF_vars(processCompletedEvents)

\* ------------------------------------------------- operations behind an Alert
\* The data of the current render: what the callbacks made by this render
\* read.
Snapshot ==
    [members |-> members, groups |-> groups, events |-> events, series |-> series,
     sessions |-> sessions]

\* what deleteEvent(id) persists when its callback holds data
DeletedEvent(data, id) ==
    [data EXCEPT !.events = SelectSeq(data.events, LAMBDA e : e.id # id)]

\* what deleteMember(id) persists when its callback holds data
DeletedMember(data, id) ==
    LET updatedGroups == UpdatedGroups(data.groups, id)
        remainingGroupIds == RemainingGroupIds(updatedGroups)
    IN  [members |-> SelectSeq(data.members, LAMBDA m : m.id # id),
         groups |-> updatedGroups,
         events |-> WithoutMember(data.events, id, remainingGroupIds),
         series |-> WithoutMember(data.series, id, remainingGroupIds),
         sessions |-> SelectSeq(data.sessions, LAMBDA x : x.memberId # id)]

\* Delete in the event form or on a member: Alert.alert is shown, and the
\* onPress of its Delete button keeps the callback of the render that showed it.
showDeleteAlert(op, id) ==
    /\ ~alert.open
    /\ alert' = [open |-> TRUE, op |-> op, id |-> id, data |-> <<Snapshot>>]
    /\ UNCHANGED <<members, groups, events, series, sessions, now, nextId, last, walk,
                   isLoading, contactImport>>

\* Delete is pressed in the Alert: the kept callback runs and persists.
confirmAlert ==
    /\ alert.open
    /\ LET result == IF alert.op = "deleteEvent"
                     THEN DeletedEvent(alert.data[1], alert.id)
                     ELSE DeletedMember(alert.data[1], alert.id)
       IN  /\ members' = result.members
           /\ groups' = result.groups
           /\ events' = result.events
           /\ series' = result.series
           /\ sessions' = result.sessions
    /\ last' = Record(alert.op, alert.id, TRUE)
    /\ alert' = NoAlert
    /\ UNCHANGED <<now, nextId, walk, isLoading, contactImport>>

\* Cancel is pressed in the Alert.
cancelAlert ==
    /\ alert.open
    /\ alert' = NoAlert
    /\ UNCHANGED <<members, groups, events, series, sessions, now, nextId, last, walk,
                   isLoading, contactImport>>

\* The sweep's timer goes on while an Alert is on the screen; the screens
\* under the Alert take no touch.
NextAlert ==
    \/ Tick
    \/ processCompletedEvents
    \/ \E id \in EventIds : ~alert.open /\ markEventSkipped(id)
    \/ \E id \in EventIds : showDeleteAlert("deleteEvent", id)
    \/ \E id \in MemberPicks \ {NoId} : showDeleteAlert("deleteMember", id)
    \/ confirmAlert
    \/ cancelAlert

SpecAlert == InitIntegrity /\ [][NextAlert]_vars

\* ------------------------------------------------- the initial load
\* ScreensRendered that renders the screens while the load is running.
ScreensRendered_Always(loading) == TRUE

\* RootLayoutNav returns null while isLoading: no screen is mounted, so no
\* effect and no handler of a screen can call an operation.
ScreensRendered(loading) == ~loading

\* The provider has just been constructed: data is the empty default and the
\* load is on its way.
InitLoad ==
    /\ members = <<>> /\ groups = <<>> /\ events = <<>> /\ series = <<>> /\ sessions = <<>>
    /\ now = 0
    /\ nextId = FirstFreeId
    /\ last = [op |-> "mount", id |-> NoId, events |-> <<>>, sessions |-> <<>>,
               persisted |-> FALSE]
    /\ walk = NoWalk
    /\ isLoading = TRUE
    /\ alert = NoAlert
    /\ contactImport = NoImport

\* What loadAppData resolves with: the stored snapshot, or the default when
\* nothing is stored or the read fails.
LoadedSnapshots ==
    {[members |-> InitMembers, groups |-> g, events |-> e, series |-> <<>>, sessions |-> x] :
        g \in InitGroups, e \in {v \in InitEvents : Len(v) = 1}, x \in EveryMemberSessions}
    \cup {[members |-> <<>>, groups |-> <<>>, events |-> <<>>, series |-> <<>>,
            sessions |-> <<>>]}

\* the then of the load effect: setData(loaded); setIsLoading(false)
loadDelivered(loaded) ==
    /\ isLoading
    /\ members' = loaded.members
    /\ groups' = loaded.groups
    /\ events' = loaded.events
    /\ series' = loaded.series
    /\ sessions' = loaded.sessions
    /\ isLoading' = FALSE
    /\ last' = [op |-> "load", id |-> NoId, events |-> loaded.events,
                sessions |-> loaded.sessions, persisted |-> FALSE]
    /\ UNCHANGED <<now, nextId, walk, alert, contactImport>>

NextLoad ==
    \/ Tick
    \/ \E loaded \in LoadedSnapshots : loadDelivered(loaded)
    \/ ScreensRendered(isLoading) /\ processCompletedEvents
    \/ \E id \in EventIds : ScreensRendered(isLoading) /\ markEventSkipped(id)
    \/ \E id \in EventIds : ScreensRendered(isLoading) /\ deleteEvent(id)
    \/ ScreensRendered(isLoading) /\ addMember

SpecLoad == InitLoad /\ [][NextLoad]_vars

\* ------------------------------------------------- import from contacts
MaxContacts == 3

\* A contact's phoneNumber is undefined or a number; the phone entry modal
\* saves a trimmed text that is not empty.
NoPhone == 0
OwnPhone == 1
EnteredPhone == 2
\* marks, in the record of an import, a contact passed with Skip
Skipped == 3

\* What the contact picker hands over: the ticked contacts in the order of
\* the device's list, each with or without a number.
Selections ==
    UNION {{c \in [1..n -> [name : 1..MaxContacts, phoneNumber : {NoPhone, OwnPhone}]] :
               /\ \A i \in 1..n : c[i].name >= i
               /\ \A i \in 1..(n - 1) : c[i].name < c[i + 1].name}
           : n \in 0..MaxContacts}

\* Accumulate that puts the new entry in front.
Accumulate_InFront(accumulated, contact, phoneNumber) ==
    <<[name |-> contact.name, whatsapp |-> phoneNumber]>> \o accumulated

\* [...accumulated, {name, whatsapp}]
Accumulate(accumulated, contact, phoneNumber) ==
    Append(accumulated, [name |-> contact.name, whatsapp |-> phoneNumber])

\* processNextContact, from index (counted from 0) on: it runs through the
\* contacts that have a number and stops at the end of the list (done) or at
\* the first contact without one (the modal opens).
RECURSIVE ProcessNextContact(_, _, _)
ProcessNextContact(contacts, index, accumulated) ==
    IF index >= Len(contacts)
    THEN [done |-> TRUE, index |-> 0, accumulated |-> accumulated]
    ELSE IF contacts[index + 1].phoneNumber # NoPhone
         THEN ProcessNextContact(contacts, index + 1,
                  Accumulate(accumulated, contacts[index + 1], contacts[index + 1].phoneNumber))
         ELSE [done |-> FALSE, index |-> index, accumulated |-> accumulated]

\* the members addMembers makes, with their ids
NewMembers(toAdd, firstId) ==
    [i \in 1..Len(toAdd) |->
        [id |-> firstId + i - 1, name |-> toAdd[i].name, whatsapp |-> toAdd[i].whatsapp]]

\* What a handler leaves after its processNextContact call returned run: the
\* state of the screen, and the snapshot when addMembers was called.  record
\* is the import's record so far.
Processed(run, record) ==
    /\ IF run.done /\ Len(run.accumulated) > 0
       THEN /\ members' = members \o NewMembers(run.accumulated, nextId)
            /\ nextId' = nextId + Len(run.accumulated)
            /\ last' = Record("addMembers", NoId, TRUE)
       ELSE UNCHANGED <<members, nextId, last>>
    /\ contactImport' =
          [record EXCEPT
              !.pendingContacts = IF run.done THEN <<>> ELSE @,
              !.currentContactIndex = run.index,
              !.importedMembers = IF run.done THEN <<>> ELSE run.accumulated,
              !.showPhoneEntry = ~run.done,
              !.calls = IF run.done /\ Len(run.accumulated) > 0 THEN @ + 1 ELSE @,
              !.added = IF run.done /\ Len(run.accumulated) > 0 THEN run.accumulated ELSE @]
    /\ UNCHANGED <<groups, events, series, sessions, now, walk, isLoading, alert>>

handleContactsSelected(selectedContacts) ==
    /\ ~contactImport.showPhoneEntry
    /\ nextId < FirstFreeId + MaxCreated
    /\ IF Len(selectedContacts) = 0
       THEN UNCHANGED vars
       ELSE Processed(ProcessNextContact(selectedContacts, 0, <<>>),
                      [NoImport EXCEPT !.pendingContacts = selectedContacts,
                                       !.selected = selectedContacts,
                                       !.entered = [i \in 1..Len(selectedContacts) |-> NoPhone]])

handlePhoneSave(phoneNumber) ==
    LET index == contactImport.currentContactIndex
        contact == contactImport.pendingContacts[index + 1]
        newAccumulated == Accumulate(contactImport.importedMembers, contact, phoneNumber)
    IN  /\ contactImport.showPhoneEntry
        /\ Processed(ProcessNextContact(contactImport.pendingContacts, index + 1, newAccumulated),
                     [contactImport EXCEPT !.entered[index + 1] = phoneNumber])

handlePhoneSkip ==
    LET index == contactImport.currentContactIndex IN
    /\ contactImport.showPhoneEntry
    /\ Processed(ProcessNextContact(contactImport.pendingContacts, index + 1,
                                    contactImport.importedMembers),
                 [contactImport EXCEPT !.entered[index + 1] = Skipped])

handlePhoneEntryClose ==
    /\ contactImport.showPhoneEntry
    /\ contactImport' = [contactImport EXCEPT !.showPhoneEntry = FALSE,
                                              !.pendingContacts = <<>>,
                                              !.currentContactIndex = 0,
                                              !.importedMembers = <<>>,
                                              !.closed = TRUE]
    /\ UNCHANGED <<members, groups, events, series, sessions, now, nextId, last, walk,
                   isLoading, alert>>

\* A snapshot with the three members, one event and no session, on the
\* members screen.
InitImport ==
    /\ Init
    /\ sessions = <<>>
    /\ Cardinality(groups[1].memberIds) = 1
    /\ Len(events) = 1
    /\ events[1].type = "person" /\ events[1].memberId = 1

NextImport ==
    \/ \E selectedContacts \in Selections : handleContactsSelected(selectedContacts)
    \/ handlePhoneSave(EnteredPhone)
    \/ handlePhoneSkip
    \/ handlePhoneEntryClose

SpecImport == InitImport /\ [][NextImport]_vars

\* ------------------------------------------------------------------ claims
\* The vocabulary of the claims.  last holds the operation just applied and
\* the events and sessions it was applied to; the current state is its result.

\* Member m is affected by occurrence e: e is m's person event, or a group
\* event of a group that contains m.
Affects(e, m) ==
    \/ e.type = "person" /\ e.memberId = m
    \/ /\ e.type = "group"
       /\ \E g \in 1..Len(groups) : groups[g].id = e.groupId /\ m \in groups[g].memberIds

\* The event at position i moved scheduled -> completed in the last operation.
Completes(i) == last.events[i].status = "scheduled" /\ events[i].status = "completed"

\* The event at position i was scheduled and past its end when the sweep ran.
WasDue(i) == last.events[i].status = "scheduled" /\ EventEnd(last.events[i]) < now

\* Positions of m's sessions before the last operation.
OwnedBefore(m) == {j \in 1..Len(last.sessions) : last.sessions[j].memberId = m}

\* Positions of the scheduled events that affected m before the last operation.
DueBefore(m) ==
    {i \in 1..Len(last.events) :
        last.events[i].status = "scheduled" /\ Affects(last.events[i], m)}

\* Positions of the events the last operation completed and that affect m.
CompletedFor(m) == {i \in 1..Len(last.events) : Completes(i) /\ Affects(last.events[i], m)}

SameShape == Len(events) = Len(last.events) /\ Len(sessions) = Len(last.sessions)

IsDebitOp == last.op \in {"sweep", "complete"}

\* The credits the only session of member m has lost since it was bought.
CreditsUsed(m) ==
    LET mine == SessionsOf(sessions, m) IN
    IF mine = <<>> THEN 0 ELSE mine[1].total - mine[1].remaining

\* Positions of m's sessions that had credit before the last operation, and
\* the oldest of them.
InCreditBefore(m) == {j \in OwnedBefore(m) : last.sessions[j].remaining > 0}

OldestInCredit(m) ==
    CHOOSE j \in InCreditBefore(m) :
        \A k \in InCreditBefore(m) : last.sessions[j].createdAt <= last.sessions[k].createdAt

\* The members of the group a group event refers to (none if it is gone).
GroupMembersOf(e) ==
    UNION {groups[g].memberIds : g \in {h \in 1..Len(groups) : groups[h].id = e.groupId}}

\* Member m had no credit before the last operation.
NoCreditBefore(m) == \A j \in OwnedBefore(m) : last.sessions[j].remaining = 0

\* One sweep of the current snapshot at instant t, and a second one after it.
SweepOnce(t) == Sweep(events, groups, sessions, t)
SweepTwice(t) == Sweep(SweepOnce(t).events, groups, SweepOnce(t).sessions, t)

\* C1: a sweep past the end of a member's only scheduled event, a person
\* event, takes the member's only session from R > 0 to R - 1 and completes
\* the event; a sweep that finds no scheduled event of a member leaves the
\* member's sessions as they are.
C1_ExactlyOnceDebit ==
    last.op = "sweep" =>
        \A j \in 1..Len(last.sessions) :
            LET m == last.sessions[j].memberId
                R == last.sessions[j].remaining
            IN  /\ \A i \in 1..Len(last.events) :
                       ( /\ OwnedBefore(m) = {j}
                         /\ R > 0
                         /\ DueBefore(m) = {i}
                         /\ last.events[i].type = "person"
                         /\ EventEnd(last.events[i]) < now )
                       => /\ events[i].status = "completed"
                          /\ sessions[j].remaining = R - 1
                /\ DueBefore(m) = {} => sessions[j] = last.sessions[j]

C1_Witness ==
    /\ last.op = "sweep"
    /\ Len(last.events) = 1 /\ Len(last.sessions) = 1
    /\ last.events[1].type = "person"
    /\ last.events[1].memberId = last.sessions[1].memberId
    /\ Completes(1)
    /\ last.sessions[1].remaining > 0
    /\ sessions[1].remaining = last.sessions[1].remaining - 1

\* C2: no occurrence is debited twice.  Every session of the loaded snapshot
\* is unused, so the credits a member has used are total - remaining, and with
\* at most one credit per occurrence they never exceed the number of the
\* member's occurrences.  Stated for the members who own one session.
C2_NoDoubleDebit ==
    \A m \in MemberIds :
        Len(SessionsOf(sessions, m)) = 1 =>
            CreditsUsed(m) <= Cardinality({i \in 1..Len(events) : Affects(events[i], m)})

\* C3: when one occurrence of a member with several sessions in credit
\* completes, exactly one session loses one credit -- the oldest in credit --
\* and the others are unchanged.
C3_OneBatchFifo ==
    (IsDebitOp /\ SameShape) =>
        \A m \in MemberIds :
            (Cardinality(CompletedFor(m)) = 1 /\ Cardinality(InCreditBefore(m)) >= 2) =>
                \A j \in OwnedBefore(m) :
                    sessions[j].remaining =
                        IF j = OldestInCredit(m)
                        THEN last.sessions[j].remaining - 1
                        ELSE last.sessions[j].remaining

C5_GroupFanOut ==
    last.op = "sweep" =>
        \A i \in 1..Len(last.events) :
            ( /\ \A h \in 1..Len(last.events) : WasDue(h) <=> h = i
              /\ last.events[i].type = "group" )
            => /\ events[i].status = "completed"
               /\ \A j \in 1..Len(last.sessions) :
                     LET m == last.sessions[j].memberId
                         R == last.sessions[j].remaining
                     IN  /\ (m \in GroupMembersOf(last.events[i]) /\ OwnedBefore(m) = {j} /\ R > 0)
                               => sessions[j].remaining = R - 1
                         /\ m \notin GroupMembersOf(last.events[i])
                               => sessions[j] = last.sessions[j]

C5_Witness ==
    /\ last.op = "sweep"
    /\ \E i \in 1..Len(last.events) :
          /\ Completes(i)
          /\ last.events[i].type = "group"
          /\ Cardinality(GroupMembersOf(last.events[i])) = 3
          /\ \A m \in GroupMembersOf(last.events[i]) :
                \E j \in 1..Len(last.sessions) :
                    /\ OwnedBefore(m) = {j}
                    /\ last.sessions[j].remaining = 1
                    /\ sessions[j].remaining = 0

\* C6: every session has total > 0 and 0 <= remaining <= total, whatever the
\* session form, the sweep, manual completion, skipping and member deletion do.
C6_SessionBalance ==
    \A j \in 1..Len(sessions) :
        /\ sessions[j].total > 0
        /\ 0 <= sessions[j].remaining
        /\ sessions[j].remaining <= sessions[j].total

\* a sweep completes two occurrences of a member whose session, made with
\* the form, has one credit left
C6_Witness ==
    /\ last.op = "sweep"
    /\ \E j \in 1..Len(last.sessions) :
          /\ last.sessions[j].id >= FirstFreeId
          /\ last.sessions[j].remaining = 1
          /\ Cardinality(CompletedFor(last.sessions[j].memberId)) = 2
          /\ sessions[j].remaining = 0

\* C7: when an occurrence completes for a member without credit (no session,
\* or every session at 0), the occurrence is completed all the same, the
\* member's sessions are unchanged and no session is created.
C7_ExhaustedCreditNoOp ==
    IsDebitOp =>
        /\ \A i \in 1..Len(last.events) :
              ( /\ last.events[i].status = "scheduled"
                /\ \/ last.op = "complete" /\ last.id = last.events[i].id
                   \/ last.op = "sweep" /\ EventEnd(last.events[i]) < now )
              => events[i].status = "completed"
        /\ \A m \in MemberIds :
              (CompletedFor(m) # {} /\ NoCreditBefore(m)) =>
                  /\ Len(sessions) = Len(last.sessions)
                  /\ \A j \in 1..Len(sessions) : sessions[j].id = last.sessions[j].id
                  /\ \A j \in OwnedBefore(m) : sessions[j] = last.sessions[j]

C7_Witness ==
    /\ last.op = "complete"
    /\ \E m \in MemberIds :
          /\ CompletedFor(m) # {}
          /\ OwnedBefore(m) # {}
          /\ NoCreditBefore(m)
          /\ \A j \in OwnedBefore(m) : sessions[j].remaining = 0

\* C8: an event that is completed or skipped keeps its status.
C8_StatusOnlyForward ==
    last.op \in {"sweep", "complete", "skip"} =>
        \A i \in 1..Len(last.events) :
            last.events[i].status # "scheduled" => events[i].status = last.events[i].status

\* C9: a sweep repeated at the same instant changes nothing more.
C9_SweepIdempotent ==
    /\ \A t \in 0..MaxTime : SweepTwice(t) = SweepOnce(t)
    /\ last.op = "sweep" => SweepOnce(now) = [events |-> events, sessions |-> sessions]

C9_Witness ==
    /\ last.op = "sweep"
    /\ events # last.events
    /\ sessions # last.sessions

\* C10: the sweep completes a scheduled event whose end instant is now or
\* earlier, and leaves scheduled the events that end after now.
C10_BoundaryTime ==
    last.op = "sweep" =>
        \A i \in 1..Len(last.events) :
            last.events[i].status = "scheduled" =>
                /\ EventEnd(last.events[i]) <= now => events[i].status = "completed"
                /\ EventEnd(last.events[i]) > now => events[i].status = "scheduled"

\* ------------------------------------------------- claims on the series
\* The series the last createSeries or createGroupSeries call added, and the
\* events it added after those of the snapshot it was applied to.
IsSeriesOp == last.op \in {"createSeries", "createGroupSeries"}
AddedSeries == series[Len(series)]
AddedEvents == SubSeq(events, Len(last.events) + 1, Len(events))

\* The calendar date of an event of series s.
DateOf(e, s) == e.start - s.time
AddedDates == {DateOf(AddedEvents[i], AddedSeries) : i \in 1..Len(AddedEvents)}

\* The calendar days from the start date of s on whose weekday is in s.weekdays.
MatchingDays(s) == {d \in s.startDate..(MaxDay + 7) : Weekday(d) \in s.weekdays}

\* C15: for a rule with non-empty weekdays and sessionsTotal = n >= 1 the call
\* adds exactly n events after the events there were, dated in strictly
\* ascending order on the first n days from the start date on (start date
\* included) whose weekday is in weekdays, every one scheduled and carrying the
\* id of the one series added.
C15_ExpansionResult ==
    (IsSeriesOp /\ AddedSeries.weekdays # {} /\ AddedSeries.sessionsTotal >= 1) =>
        /\ Len(events) = Len(last.events) + AddedSeries.sessionsTotal
        /\ SubSeq(events, 1, Len(last.events)) = last.events
        /\ \A i \in 1..(Len(AddedEvents) - 1) : AddedEvents[i].start < AddedEvents[i + 1].start
        /\ AddedDates \subseteq MatchingDays(AddedSeries)
        /\ \A d \in MatchingDays(AddedSeries) \ AddedDates : \A x \in AddedDates : x < d
        /\ \A i \in 1..Len(AddedEvents) :
              /\ AddedEvents[i].status = "scheduled"
              /\ AddedEvents[i].seriesId = AddedSeries.id
        /\ AddedSeries.id = last.id

\* C16: a call with an empty weekdays set and sessionsTotal >= 1 is rejected
\* before any expansion: its loop never walks a day.
C16_EmptyWeekdaysRejected ==
    (walk.active /\ walk.newSeries[1].weekdays = {} /\ walk.newSeries[1].sessionsTotal >= 1)
        => walk.currentDate = NewDate(walk.newSeries[1].startDate)

\* C17: createSeries called with sessionsTotal <= 0 or duration <= 0 leaves
\* the snapshot untouched: a createSeries call that has added a series or
\* events had a rule with sessionsTotal > 0 and duration > 0.
C17_InvalidRulesChangeNothing ==
    last.op = "createSeries" =>
        /\ AddedSeries.sessionsTotal > 0
        /\ AddedSeries.duration > 0

\* ------------------------------------------- claims on referential integrity
\* The ids of the groups whose last member is id.
LastMemberGroupIds(id) ==
    {groups[g].id : g \in {h \in 1..Len(groups) : groups[h].memberIds = {id}}}

ExistingMemberIds == {members[i].id : i \in 1..Len(members)}

\* C11: after deleteMember(id) there is no member with that id, no event,
\* series or session of that member, no group that contains id, no group
\* without members, and no event or series of a group that was removed because
\* id was its last member.
C11_CascadeOnMemberDelete ==
    [][last'.op = "deleteMember" =>
          LET id == last'.id
              orphaned == LastMemberGroupIds(id)
          IN  /\ \A i \in 1..Len(members') : members'[i].id # id
              /\ \A i \in 1..Len(events') :
                    events'[i].memberId # id /\ events'[i].groupId \notin orphaned
              /\ \A i \in 1..Len(series') :
                    series'[i].memberId # id /\ series'[i].groupId \notin orphaned
              /\ \A i \in 1..Len(sessions') : sessions'[i].memberId # id
              /\ \A i \in 1..Len(groups') :
                    id \notin groups'[i].memberIds /\ groups'[i].memberIds # {}
              /\ \A g \in orphaned : \A i \in 1..Len(groups') : groups'[i].id # g]_vars

\* a member with an event, a series and a session, the last member of a group
\* with an event, has been deleted: all of these are gone
C11_Witness ==
    /\ last.op = "deleteMember"
    /\ \E i \in 1..Len(last.events) : last.events[i].memberId = last.id
    /\ \E i \in 1..Len(last.events) : last.events[i].seriesId # NoId
    /\ \E i \in 1..Len(last.sessions) : last.sessions[i].memberId = last.id
    /\ \E i \in 1..Len(last.events) :
          /\ last.events[i].type = "group" /\ last.events[i].groupId = GroupId0
          /\ GroupId0 \notin GroupIds
    /\ events = <<>> /\ series = <<>>
    /\ Len(sessions) = Len(last.sessions) - 1

\* C12: after deleteGroup(id) no event and no series has groupId = id.
C12_NoDanglingGroupRefs ==
    last.op = "deleteGroup" =>
        /\ \A i \in 1..Len(events) : events[i].groupId # last.id
        /\ \A i \in 1..Len(series) : series[i].groupId # last.id

\* C13: every group has members and all of them are existing members.
C13_GroupMembership ==
    \A i \in 1..Len(groups) :
        /\ groups[i].memberIds # {}
        /\ groups[i].memberIds \subseteq ExistingMemberIds

\* The tag rule for an event or a series.
TagRule(r) ==
    /\ r.type = "person" => (r.memberId # NoId /\ r.groupId = NoId)
    /\ r.type = "group" => (r.groupId # NoId /\ r.memberId = NoId)

\* C14: every event and every series has memberId and no groupId when its
\* type is person, and groupId and no memberId when its type is group.
C14_TypeTag ==
    /\ \A i \in 1..Len(events) : TagRule(events[i])
    /\ \A i \in 1..Len(series) : TagRule(series[i])

\* ------------------------------------ claims on skipping and completing
\* C18: markEventSkipped(id) writes status skipped into the event with that
\* id and changes nothing else: the other events, the sessions, members,
\* groups and series are as they were.
C18_SkipOnlyStatus ==
    [][last'.op = "skip" =>
          /\ members' = members
          /\ groups' = groups
          /\ series' = series
          /\ sessions' = sessions
          /\ Len(events') = Len(events)
          /\ \A i \in 1..Len(events) :
                events'[i] = IF events[i].id = last'.id
                             THEN [events[i] EXCEPT !.status = "skipped"]
                             ELSE events[i]]_vars

\* one of two scheduled events of a snapshot with sessions has been skipped
C18_Witness ==
    /\ last.op = "skip"
    /\ Len(events) = 2
    /\ sessions # <<>>
    /\ \E i \in 1..2 :
          /\ events[i].id = last.id
          /\ last.events[i].status = "scheduled"
          /\ events[i].status = "skipped"
          /\ last.events[3 - i].status = "scheduled"

\* The instants at which a sweep of the snapshot before the last operation
\* finds the event with this id, and no other, elapsed.
OnlyElapsedAt(id) ==
    {t \in 0..(MaxTime + 1) : CompletedEventIds(last.events, t) = <<id>>}

\* C19: markEventCompleted of a scheduled event gives the events and sessions
\* that a sweep gives in which this event is the only one elapsed, and the
\* status of every other event is as it was.
C19_ManualLikeSweep ==
    last.op = "complete" =>
        \A i \in 1..Len(last.events) :
            (last.events[i].id = last.id /\ last.events[i].status = "scheduled") =>
                /\ \A t \in OnlyElapsedAt(last.id) :
                      Sweep(last.events, groups, last.sessions, t)
                          = [events |-> events, sessions |-> sessions]
                /\ \A h \in 1..Len(events) :
                      h # i => events[h].status = last.events[h].status

\* a scheduled group event that a sweep could find elapsed alone has been
\* completed by hand, and sessions were debited
C19_Witness ==
    /\ last.op = "complete"
    /\ OnlyElapsedAt(last.id) # {}
    /\ Len(events) = 2
    /\ \E i \in 1..2 : last.events[i].id = last.id /\ last.events[i].type = "group"
    /\ sessions # last.sessions

\* C20: a sweep that finds no scheduled event past its end leaves the
\* snapshot as it is and does not call persistData.
C20_NoOpSweep ==
    [][( /\ last'.op = "sweep"
         /\ \A i \in 1..Len(events) :
               events[i].status = "scheduled" => ~(EventEnd(events[i]) < now) )
       => /\ UNCHANGED <<members, groups, events, series, sessions>>
          /\ ~last'.persisted]_vars

\* a sweep ran while a scheduled event was ending at that very instant, and
\* wrote nothing
C20_Witness ==
    /\ last.op = "sweep"
    /\ ~last.persisted
    /\ events = last.events /\ sessions = last.sessions
    /\ sessions # <<>>
    /\ \E i \in 1..Len(events) : events[i].status = "scheduled" /\ EventEnd(events[i]) = now

\* ------------------------------------------------ claims on later sweeps
\* Instants a sweep may be called with, earlier ones than now included.
SweepInstants == 0..(MaxTime + 1)

\* The sessions of the members the event at position i of the current
\* snapshot affects.
SessionsAffectedBy(i) == {j \in 1..Len(sessions) : Affects(events[i], sessions[j].memberId)}

\* C21: a sweep at any instant, earlier than now or later, leaves every event
\* that is completed or skipped with its status, and leaves alone the sessions
\* of the members all of whose events are completed or skipped.
C21_NoUncompletion ==
    \A t \in SweepInstants :
        LET after == SweepOnce(t) IN
        /\ Len(after.events) = Len(events) /\ Len(after.sessions) = Len(sessions)
        /\ \A i \in 1..Len(events) :
              events[i].status # "scheduled" => after.events[i] = events[i]
        /\ \A j \in 1..Len(sessions) :
              (\A i \in 1..Len(events) :
                  (j \in SessionsAffectedBy(i)) => events[i].status # "scheduled")
              => after.sessions[j] = sessions[j]

\* a completed event and a skipped one, both past their end, with a session
\* in credit of a member of both
C21_Witness ==
    /\ Len(events) = 2
    /\ \E i \in 1..2 :
          /\ events[i].status = "completed" /\ events[3 - i].status = "skipped"
          /\ EventEnd(events[1]) < now /\ EventEnd(events[2]) < now
          /\ \E j \in SessionsAffectedBy(1) \cap SessionsAffectedBy(2) : sessions[j].remaining > 0
    /\ last.op = "sweep"

\* A sweep at t of the snapshot a first sweep left.
SweepAfter(first, t) == Sweep(first.events, groups, first.sessions, t)

\* C27: for instants t1 <= t2, a sweep at t1 followed by a sweep at t2 gives
\* the events and sessions of a single sweep at t2.
C27_SweepBatching ==
    \A t1 \in SweepInstants :
        LET first == SweepOnce(t1) IN
        \A t2 \in t1..(MaxTime + 1) : SweepAfter(first, t2) = SweepOnce(t2)

\* a sweep has completed one of two occurrences of a member and taken the
\* session's only credit; the other one ends later and is still to be swept
C27_Witness ==
    /\ Len(events) = 2
    /\ last.op = "sweep"
    /\ \E i \in 1..2 :
          /\ last.events[i].status = "scheduled" /\ events[i].status = "completed"
          /\ events[3 - i].status = "scheduled"
          /\ \E j \in SessionsAffectedBy(1) \cap SessionsAffectedBy(2) :
                /\ last.sessions[j].remaining = 1
                /\ sessions[j].remaining = 0
    /\ \E t2 \in SweepInstants : t2 > now /\ SweepOnce(t2).events # events

\* ------------------------------------------------ claims on deleteMember
\* The ids of the groups that keep a member when id leaves.
SurvivingGroupIds(id) ==
    {groups[g].id : g \in {h \in 1..Len(groups) : groups[h].memberIds \ {id} # {}}}

\* An event or a series deleteMember(id) has to keep: a person record of another
\* member, or a record of a group that survives.
KeptRecord(r, id) ==
    \/ r.type = "person" /\ r.memberId # id
    \/ r.groupId \in SurvivingGroupIds(id)

\* C28: deleteMember(id), the step that records itself in last, keeps, unchanged and in their order, every other
\* member, every session of another member, every person event and series of
\* another member, every group that still has a member (without id in its
\* memberIds) and every event and series of such a group.
C28_DeleteMemberFrame ==
    [][last'.op = "deleteMember" /\ last' # last =>
          LET id == last'.id
              kept == SurvivingGroupIds(id)
          IN  /\ SelectSeq(members', LAMBDA m : m.id # id)
                    = SelectSeq(members, LAMBDA m : m.id # id)
              /\ SelectSeq(sessions', LAMBDA x : x.memberId # id)
                    = SelectSeq(sessions, LAMBDA x : x.memberId # id)
              /\ SelectSeq(events', LAMBDA e : (e.type = "person" /\ e.memberId # id) \/ e.groupId \in kept)
                    = SelectSeq(events, LAMBDA e : KeptRecord(e, id))
              /\ SelectSeq(series', LAMBDA r : (r.type = "person" /\ r.memberId # id) \/ r.groupId \in kept)
                    = SelectSeq(series, LAMBDA r : KeptRecord(r, id))
              /\ SelectSeq(groups', LAMBDA g : g.id \in kept)
                    = MapSeq(SelectSeq(groups, LAMBDA g : g.id \in kept),
                             LAMBDA g : [g EXCEPT !.memberIds = g.memberIds \ {id}])
              /\ now' = now /\ nextId' = nextId]_vars

\* the first member, with an event and a session, has been deleted from the
\* group it shared with the second: the group, its event, the second member,
\* a person event and the session of the second member are still there
C28_Witness ==
    /\ last.op = "deleteMember" /\ last.id = 1
    /\ \E i \in 1..Len(last.events) : last.events[i].memberId = 1
    /\ \E i \in 1..Len(last.sessions) : last.sessions[i].memberId = 1
    /\ \E g \in 1..Len(groups) : groups[g].id = GroupId0 /\ groups[g].memberIds = {2}
    /\ \E i \in 1..Len(events) : events[i].groupId = GroupId0
    /\ \E i \in 1..Len(events) : events[i].type = "person" /\ events[i].memberId = 2
    /\ \E i \in 1..Len(sessions) : sessions[i].memberId = 2
    /\ \E i \in 1..Len(members) : members[i].id = 2

\* ------------------------------------------------ claims on references
\* Event e names a group or a member that is not in the snapshot.
Gap(e) ==
    \/ e.type = "group" /\ e.groupId # NoId /\ e.groupId \notin GroupIds
    \/ e.type = "person" /\ e.memberId # NoId /\ e.memberId \notin ExistingMemberIds

\* C22: a sweep completes the elapsed scheduled events that name a missing
\* group or member like the others, and the sessions and the other events it
\* leaves are those of the same sweep over the snapshot without these events;
\* markEventCompleted of such an event completes it, persists, and leaves
\* every session as it was.
C22_GapsDegradeGracefully ==
    /\ last.op = "sweep" =>
          LET others == SelectSeq(last.events, LAMBDA e : ~Gap(e))
              alone == Sweep(others, groups, last.sessions, now)
          IN  /\ Len(events) = Len(last.events)
              /\ \A i \in 1..Len(last.events) :
                    (WasDue(i) /\ Gap(last.events[i])) =>
                        events[i] = [last.events[i] EXCEPT !.status = "completed"]
              /\ SelectSeq(events, LAMBDA e : ~Gap(e)) = alone.events
              /\ sessions = alone.sessions
    /\ last.op = "complete" =>
          \A i \in 1..Len(last.events) :
              (last.events[i].id = last.id /\ last.events[i].status # "completed"
                  /\ Gap(last.events[i])) =>
                  /\ events = UpdateEventStatus(last.events, last.id, "completed")
                  /\ sessions = last.sessions
                  /\ last.persisted

\* one sweep has completed an event of a deleted group and an event of a
\* member with credit: the member's session was debited
C22_Witness ==
    /\ last.op = "sweep"
    /\ \E i \in 1..Len(last.events) : WasDue(i) /\ Gap(last.events[i])
    /\ \E i \in 1..Len(last.events) :
          /\ WasDue(i) /\ ~Gap(last.events[i])
          /\ \E j \in 1..Len(sessions) :
                /\ Affects(last.events[i], sessions[j].memberId)
                /\ sessions[j].remaining = last.sessions[j].remaining - 1

SeriesIds == {series[i].id : i \in 1..Len(series)}

\* C23: every event with a seriesId names a series of the snapshot.
C23_SeriesBackReference ==
    \A i \in 1..Len(events) : events[i].seriesId # NoId => events[i].seriesId \in SeriesIds

\* one occurrence of a series was deleted; the other one, completed, and the
\* series are still there
C23_Witness ==
    /\ last.op = "deleteEvent"
    /\ \E i \in 1..Len(last.events) :
          /\ last.events[i].id = last.id /\ last.events[i].seriesId # NoId
          /\ \E k \in 1..Len(events) :
                /\ events[k].seriesId = last.events[i].seriesId
                /\ events[k].status = "completed"

\* ------------------------------------------------ claims on determinism
\* The rule series s was created with.
RuleOf(s) ==
    Rule(s.type, s.memberId, s.groupId, s.weekdays, s.startDate, s.time, s.duration,
         s.sessionsTotal)

\* The events of series s in the order of the snapshot, without the generated
\* ids.
OccurrencesOf(s) ==
    MapSeq(SelectSeq(events, LAMBDA e : e.seriesId = s.id),
           LAMBDA e : [e EXCEPT !.id = NoId, !.seriesId = NoId])

\* C26: two series created by createSeries with the same rule have event
\* lists equal in length, order, dates, times, durations and statuses.
C26_ExpansionDeterminism ==
    \A i \in 1..Len(series) : \A j \in 1..Len(series) :
        RuleOf(series[i]) = RuleOf(series[j]) =>
            OccurrencesOf(series[i]) = OccurrencesOf(series[j])

\* ------------------------------------------------ claims on the timer
\* The ids of the events of the loaded snapshot.
LoadedEventIds == (EventId0 + 1)..(EventId0 + MaxEvents)

\* The event with this id is scheduled and past its end.
Overdue(id) ==
    \E i \in 1..Len(events) :
        events[i].id = id /\ events[i].status = "scheduled" /\ EventEnd(events[i]) < now

\* The event with this id is completed, skipped or deleted.
Settled(id) ==
    \A i \in 1..Len(events) : events[i].id = id => events[i].status \in {"completed", "skipped"}

\* C25: while the sweep keeps running, every event that is scheduled and past
\* its end is eventually completed, skipped or deleted.
C25_EventuallyCompleted == \A id \in LoadedEventIds : Overdue(id) ~> Settled(id)

\* a sweep has completed an event that was scheduled and past its end while
\* the other event of the snapshot had been skipped
C25_Witness ==
    /\ last.op = "sweep"
    /\ \E i \in 1..Len(last.events) : WasDue(i) /\ events[i].status = "completed"
    /\ \E i \in 1..Len(events) : events[i].status = "skipped"

\* ------------------------------------------------ claims on serialization
\* C24: every operation is applied to the snapshot the operation before it
\* left: the snapshot after a sweep, a skip, a deleteEvent or a deleteMember is
\* the result of that operation on the events and sessions there were when it
\* ran.
C24_Serialized ==
    /\ last.op = "sweep" =>
          [events |-> events, sessions |-> sessions]
              = Sweep(last.events, groups, last.sessions, now)
    /\ last.op = "skip" =>
          events = UpdateEventStatus(last.events, last.id, "skipped") /\ sessions = last.sessions
    /\ last.op = "deleteEvent" =>
          /\ events = SelectSeq(last.events, LAMBDA e : e.id # last.id)
          /\ sessions = last.sessions
    /\ last.op = "deleteMember" =>
          /\ events = WithoutMember(last.events, last.id, GroupIds)
          /\ sessions = SelectSeq(last.sessions, LAMBDA x : x.memberId # last.id)

\* ------------------------------------------------ claims on the initial load
\* C29: while isLoading is true the snapshot is the empty default and no
\* operation has run or called persistData.
C29_NothingSavedBeforeLoad ==
    isLoading =>
        /\ ~last.persisted
        /\ last.op \in {"mount", "tick"}
        /\ members = <<>> /\ groups = <<>> /\ events = <<>> /\ series = <<>> /\ sessions = <<>>

\* the load took its time and delivered a stored snapshot; the first save, by
\* the sweep, was made from it
C29_Witness ==
    /\ ~isLoading
    /\ last.op = "sweep" /\ last.persisted
    /\ last.events # <<>> /\ last.events[1].status = "scheduled"
    /\ Len(members) = MaxMembers

\* ------------------------------------------------ claims on the import
\* The entries an import has to add: in the order of the selection, the
\* contacts with a number of their own or with one entered in the modal.
RECURSIVE ToImport(_, _, _)
ToImport(selected, entered, i) ==
    IF i > Len(selected) THEN <<>>
    ELSE LET rest == ToImport(selected, entered, i + 1) IN
         IF selected[i].phoneNumber # NoPhone
         THEN <<[name |-> selected[i].name, whatsapp |-> selected[i].phoneNumber]>> \o rest
         ELSE IF entered[i] = EnteredPhone
              THEN <<[name |-> selected[i].name, whatsapp |-> EnteredPhone]>> \o rest
              ELSE rest

\* Every selected contact without a number has been answered in the modal.
AllProcessed ==
    \A i \in 1..Len(contactImport.selected) :
        contactImport.selected[i].phoneNumber = NoPhone => contactImport.entered[i] # NoPhone

\* C30: in one import addMembers is called at most once; when it has been
\* called, every selected contact has been processed, the modal is shut, the
\* import was not closed, and the call carried exactly the contacts with a
\* number of their own or an entered one, in the order of the selection; the
\* new members are these, at the end of the list.  An import whose modal was
\* closed has called addMembers never.
C30_ImportAllOrNothing ==
    /\ contactImport.calls <= 1
    /\ contactImport.closed => contactImport.calls = 0
    /\ contactImport.calls = 1 =>
          /\ AllProcessed
          /\ ~contactImport.showPhoneEntry
          /\ contactImport.added
                = ToImport(contactImport.selected, contactImport.entered, 1)
          /\ Len(members) >= Len(contactImport.added)
          /\ \A i \in 1..Len(contactImport.added) :
                LET m == members[Len(members) - Len(contactImport.added) + i] IN
                /\ m.name = contactImport.added[i].name
                /\ m.whatsapp = contactImport.added[i].whatsapp

\* three contacts were selected, the first with a number; the second was
\* given one in the modal and the third was skipped: two members were added
C30_Witness ==
    /\ last.op = "addMembers"
    /\ contactImport.calls = 1
    /\ Len(contactImport.selected) = 3
    /\ contactImport.selected[1].phoneNumber = OwnPhone
    /\ contactImport.entered[2] = EnteredPhone
    /\ contactImport.entered[3] = Skipped
    /\ Len(contactImport.added) = 2

====
